---- MODULE Spec2Model ----
(***************************************************************************)
(* Messaging core of Django-signals_orm-0x04/messaging: Message.save, the  *)
(* pre_save / post_save signal handlers that record edit history and       *)
(* create notifications, seen as a state machine over the database rows    *)
(* and the in-memory model instances held by concurrently served requests. *)
(***************************************************************************)
EXTENDS Integers, Sequences, FiniteSets, TLC

\* ------------------------------------------------------------------ bounds
NumUsers == 3
NumConversations == 1
NumContents == 2
MaxMessages == 2
MaxSaves == 3
\* content lengths range from PreviewLimit - PreviewSlack to PreviewLimit + PreviewSlack
PreviewSlack == 2
\* mark_as_read calls in one behaviour
MaxCalls == 2
\* the longest thread has SafetyLimit + ChainSlack ancestors
ChainSlack == 2
\* the longest cycle of parent_message links
MaxCycle == 3
\* the frames the interpreter allows before it raises RecursionError
MaxFrames == 4

\* --------------------------------------------------------- program constants
\* signals.py:182  instance.content[:100] / len(instance.content) > 100
PreviewLimit == 100
\* signals.py:151  old_content[:50], message.content[:50]
EditPreviewLimit == 50
\* models.py:124  if depth > 100
SafetyLimit == 100

Users == 1..NumUsers
Conversations == 1..NumConversations
Procs == {1, 2}
None == 0

\* A text is a sequence of characters; characters are numbers.
Text(c, n) == [i \in 1..n |-> c]
Ellipsis == <<0, 0, 0>>
Contents == {Text(c, 1) : c \in 1..NumContents}

\* contents as long as the preview limit, a little shorter and a little longer
LongContents ==
    {Text(c, n) : c \in 1..NumContents,
                  n \in (PreviewLimit - PreviewSlack)..(PreviewLimit + PreviewSlack)}

VARIABLES
    participants,   \* Conversation.participants: conversation -> set of users
    last_activity,  \* Conversation.last_activity: conversation -> time
    messages,       \* table message: message_id -> row
    history,        \* table message_history, in creation order
    notifications,  \* table notification, in creation order
    inst,           \* per request: the Message instance it holds in memory
    pc,             \* per request: where it stands inside Message.save()
    loc,            \* per request: locals of save() and track_message_edits
    clock,          \* timezone.now(), one tick per save() call
    next_id,        \* the next fresh message_id (uuid4)
    created_with,   \* history variable: message_id -> content it was created with
    edits,          \* history variable: message_id -> content-changing saves so far
    marks,          \* the mark_as_read calls made so far, in the order they began
    walk,           \* the get_thread_depth call in progress and the one before it
    users,          \* table user: the users that exist
    request,        \* the last request a view has answered, and its response
    thread          \* the get_message_with_thread call in progress

vars == <<participants, last_activity, messages, history, notifications,
          inst, pc, loc, clock, next_id, created_with, edits, marks, walk,
          users, request, thread>>

NoInstance == [message_id |-> None]

\* adding: the instance is being created; receiver_arg: the receiver the caller
\* passed; now: timezone.now() of this save; original_content, version_number:
\* locals of track_message_edits (version_number 0: no edit detected);
\* history_failed, history_written, notified: what the handler did so far
NoLocals == [adding |-> FALSE, receiver_arg |-> None, now |-> 0,
             original_content |-> <<>>, version_number |-> 0,
             history_failed |-> FALSE, history_written |-> FALSE, notified |-> 0]

\* no get_thread_depth call was made yet
NoWalk == [message |-> None]

\* no view has answered a request yet
NoRequest == [method |-> "none", user |-> None, message |-> None, response |-> "none"]

\* no get_message_with_thread call was made yet
NoThread == [message |-> None, frames |-> 0, status |-> "none"]

\* ----------------------------------------------------------------- queries

Min(S) == CHOOSE x \in S : \A y \in S : x <= y

Max(S) == CHOOSE x \in S : \A y \in S : x >= y

Take(s, n) == SubSeq(s, 1, IF Len(s) < n THEN Len(s) ELSE n)

\* conversation.participants.exclude(user_id=u)
OtherParticipants(c, u) == participants[c] \ {u}

\* queryset.first() on an unordered queryset orders by primary key
First(S) == IF S = {} THEN None ELSE Min(S)

\* a queryset of users iterated in primary-key order
RECURSIVE InOrder(_)
InOrder(S) == IF S = {} THEN <<>> ELSE <<Min(S)>> \o InOrder(S \ {Min(S)})

\* MessageHistory.objects.filter(message=m), over the table contents h
HistoryIn(h, m) == SelectSeq(h, LAMBDA r : r.message = m)

HistoryOf(m) == HistoryIn(history, m)

\* ... .order_by('-version_number').first()
LatestVersion(m) ==
    IF HistoryOf(m) = <<>> THEN None
    ELSE Max({HistoryOf(m)[i].version_number : i \in 1..Len(HistoryOf(m))})

\* ------------------------------------------------------------ Message.save

\* models.py:95-99: the receiver is filled in when none was given
AutoReceiver(i) ==
    IF i.receiver = None /\ OtherParticipants(i.conversation, i.sender) # {}
    THEN First(OtherParticipants(i.conversation, i.sender))
    ELSE i.receiver

\* the comparison lost: every save of a stored message counts as an edit
ContentChanged_Always(original, instance) == TRUE

\* signals.py:98
ContentChanged(original, instance) == original.content # instance.content

\* the increment lost: every edit is recorded as version 1
NextVersion_NoIncrement(latest) == 1

\* signals.py:104-106
NextVersion(latest) == IF latest # None THEN latest + 1 ELSE 1

\* the exclude() lost: the editor is notified as well
EditRecipients_WithEditor(message) == participants[message.conversation]

\* signals.py:141-142
EditRecipients(message) == OtherParticipants(message.conversation, message.sender)

\* signals.py:168-173
MessageRecipients(instance) ==
    IF instance.receiver # None THEN <<instance.receiver>>
    ELSE InOrder(OtherParticipants(instance.conversation, instance.sender))

\* the marker lost: the content is cut and nothing is appended
MessagePreview_NoMarker(content) == Take(content, PreviewLimit)

\* signals.py:182-183
MessagePreview(content) ==
    IF Len(content) > PreviewLimit THEN Take(content, PreviewLimit) \o Ellipsis
    ELSE content

\* signals.py:151
EditPreview(old_content, content) ==
    [old |-> Take(old_content, EditPreviewLimit) \o Ellipsis,
     new |-> Take(content, EditPreviewLimit) \o Ellipsis]

\* signals.py:146-152
EditNotification(u, message, old_content) ==
    [user |-> u, message |-> message.message_id, notification_type |-> "edit",
     by |-> message.sender, content |-> EditPreview(old_content, message.content)]

\* signals.py:177-184
MessageNotification(u, instance) ==
    [user |-> u, message |-> instance.message_id, notification_type |-> "message",
     by |-> instance.sender, content |-> <<MessagePreview(instance.content)>>]

\* old_content taken from the instance being saved, not from the stored row
HistoryRow_NewAsOld(instance, original_content, version) ==
    [message |-> instance.message_id, old_content |-> instance.content,
     new_content |-> instance.content, edited_by |-> instance.sender,
     version_number |-> version]

\* signals.py:109-115
HistoryRow(instance, original_content, version) ==
    [message |-> instance.message_id, old_content |-> original_content,
     new_content |-> instance.content, edited_by |-> instance.sender,
     version_number |-> version]

\* the columns of a message row, as save() writes them from the instance
RowOf(i) ==
    [conversation |-> i.conversation, sender |-> i.sender, receiver |-> i.receiver,
     parent_message |-> i.parent_message, content |-> i.content,
     is_read |-> i.is_read, edited |-> i.edited, edited_at |-> i.edited_at]

\* Message.objects.get(pk=m): the row as an instance
InstanceOf(m) ==
    [message_id |-> m, conversation |-> messages[m].conversation,
     sender |-> messages[m].sender, receiver |-> messages[m].receiver,
     parent_message |-> messages[m].parent_message, content |-> messages[m].content,
     is_read |-> messages[m].is_read, edited |-> messages[m].edited,
     edited_at |-> messages[m].edited_at]

Exists(m) == m \in DOMAIN messages

\* conversation.participants.add(...) before any message (tests.py:26-27,
\* 170-171): nobody yet, or the first k users
InitialParticipantSets == {1..k : k \in 0..NumUsers}

Init ==
    /\ participants \in [Conversations -> InitialParticipantSets]
    /\ last_activity = [c \in Conversations |-> 0]
    /\ messages = <<>>
    /\ history = <<>>
    /\ notifications = <<>>
    /\ inst = [p \in Procs |-> NoInstance]
    /\ pc = [p \in Procs |-> "idle"]
    /\ loc = [p \in Procs |-> NoLocals]
    /\ clock = 0
    /\ next_id = 1
    /\ created_with = <<>>
    /\ edits = [m \in {} |-> 0]
    /\ marks = <<>>
    /\ walk = NoWalk
    /\ users = Users
    /\ request = NoRequest
    /\ thread = NoThread

\* signals.py:92-98: the save is an edit when the row exists (objects.get does
\* not raise DoesNotExist) and its content differs from the instance's
IsEdit(i) == Exists(i.message_id) /\ ContentChanged(messages[i.message_id], i)

\* models.py:93-103 followed by the read half of track_message_edits
\* (signals.py:92-106): instance i enters save().
BeginSave(p, i, adding, receiver_arg) ==
    LET withReceiver == [i EXCEPT !.receiver = AutoReceiver(i)]
        changed == IsEdit(withReceiver)
    IN
    /\ clock < MaxSaves
    /\ clock' = clock + 1
    /\ inst' = [inst EXCEPT ![p] = withReceiver]
    /\ last_activity' = [last_activity EXCEPT ![i.conversation] = clock + 1]
    /\ loc' = [loc EXCEPT ![p] =
                [NoLocals EXCEPT
                    !.adding = adding,
                    !.receiver_arg = receiver_arg,
                    !.now = clock + 1,
                    !.original_content =
                        IF changed THEN messages[i.message_id].content ELSE <<>>,
                    !.version_number =
                        IF changed THEN NextVersion(LatestVersion(i.message_id))
                        ELSE 0]]
    /\ pc' = [pc EXCEPT ![p] = IF changed THEN "track" ELSE "write"]
    /\ edits' = IF changed THEN [edits EXCEPT ![i.message_id] = @ + 1] ELSE edits
    /\ UNCHANGED <<participants, messages, history, notifications, created_with,
                   marks, walk, users, thread>>

\* Message.objects.create(conversation=c, sender=s, receiver=r, content=x)
Create(p, c, s, r, x) ==
    /\ pc[p] = "idle"
    /\ next_id <= MaxMessages
    /\ next_id' = next_id + 1
    /\ BeginSave(p, [message_id |-> next_id, conversation |-> c, sender |-> s,
                     receiver |-> r, parent_message |-> None, content |-> x,
                     is_read |-> FALSE, edited |-> FALSE, edited_at |-> None],
                 TRUE, r)
    /\ UNCHANGED request

\* Message.objects.get(pk=m) / refresh_from_db(): a request loads a message
Load(p, m) ==
    /\ pc[p] = "idle"
    /\ Exists(m)
    /\ inst[p] # InstanceOf(m)
    /\ inst' = [inst EXCEPT ![p] = InstanceOf(m)]
    /\ UNCHANGED <<participants, last_activity, messages, history, notifications,
                   pc, loc, clock, next_id, created_with, edits,
                   marks, walk, users, request, thread>>

\* message.content = x; message.save() on an instance that was loaded or saved
\* before (tests.py:43-44, the update view); x may be the content it already has
Save(p, x) ==
    /\ pc[p] = "idle"
    /\ inst[p] # NoInstance
    /\ Exists(inst[p].message_id)
    /\ BeginSave(p, [inst[p] EXCEPT !.content = x], FALSE, None)
    /\ UNCHANGED <<next_id, request>>

\* signals.py:135-157: the first k of the edit notifications
EditNotifications(message, old_content, k) ==
    [j \in 1..k |->
        EditNotification(InOrder(EditRecipients(message))[j], message, old_content)]

\* the except clause lost: the exception of Notification.objects.create leaves
\* save() before the row is written
AfterEditNotifications_Raise(created, wanted) ==
    IF created < wanted THEN "idle" ELSE "write"

\* signals.py:125, 139-157: create_edit_notification returns to the handler
\* whether all wanted notifications were created or the except clause logged an
\* error after the first `created` ones; save() goes on to write the row
AfterEditNotifications(created, wanted) == "write"

\* signals.py:109-125: the history row, the edited fields, and k edit
\* notifications (all of them unless Notification.objects.create raises)
RecordEditUpTo(p, k) ==
    LET edited == [inst[p] EXCEPT !.edited = TRUE, !.edited_at = loc[p].now] IN
    /\ pc[p] = "track"
    /\ history' = Append(history,
                         HistoryRow(inst[p], loc[p].original_content,
                                    loc[p].version_number))
    /\ inst' = [inst EXCEPT ![p] = edited]
    /\ notifications' =
          notifications \o EditNotifications(edited, loc[p].original_content, k)
    /\ loc' = [loc EXCEPT ![p].history_written = TRUE, ![p].notified = k]
    /\ pc' = [pc EXCEPT ![p] =
                AfterEditNotifications(k, Cardinality(EditRecipients(inst[p])))]
    /\ UNCHANGED <<participants, last_activity, messages, clock, next_id,
                   created_with, edits,
                   marks, walk, users, request, thread>>

RecordEdit(p) == RecordEditUpTo(p, Cardinality(EditRecipients(inst[p])))

\* signals.py:194-206
SetReceiverIfNotProvided(i) ==
    IF /\ i.receiver = None
       /\ Cardinality(OtherParticipants(i.conversation, i.sender)) = 1
    THEN [i EXCEPT !.receiver = First(OtherParticipants(i.conversation, i.sender))]
    ELSE i

\* signals.py:160-191: the first k of the notifications of a new message
MessageNotifications(instance, k) ==
    [j \in 1..k |-> MessageNotification(MessageRecipients(instance)[j], instance)]

\* models.py:105: the row is written; then post_save creates k notifications
\* (all of them unless Notification.objects.create raises)
WriteRowUpTo(p, k) ==
    LET i == SetReceiverIfNotProvided(inst[p])
        created == ~Exists(i.message_id)
    IN
    /\ pc[p] = "write"
    /\ inst' = [inst EXCEPT ![p] = i]
    /\ messages' = IF created THEN messages @@ (i.message_id :> RowOf(i))
                   ELSE [messages EXCEPT ![i.message_id] = RowOf(i)]
    /\ created_with' = IF created THEN created_with @@ (i.message_id :> i.content)
                       ELSE created_with
    /\ edits' = IF created THEN edits @@ (i.message_id :> 0) ELSE edits
    /\ notifications' =
          IF created THEN notifications \o MessageNotifications(i, k)
          ELSE notifications
    /\ loc' = [loc EXCEPT ![p] = NoLocals]
    /\ pc' = [pc EXCEPT ![p] = "idle"]
    /\ UNCHANGED <<participants, last_activity, history, clock, next_id,
                   marks, walk, users, request, thread>>

WriteRow(p) ==
    WriteRowUpTo(p, Len(MessageRecipients(SetReceiverIfNotProvided(inst[p]))))

\* ------------------------------------------------- storage write failures

\* signals.py:109 raises; signals.py:130-132 logs it and save() goes on
HistoryFail(p) ==
    /\ pc[p] = "track"
    /\ loc' = [loc EXCEPT ![p].history_failed = TRUE]
    /\ pc' = [pc EXCEPT ![p] = "write"]
    /\ UNCHANGED <<participants, last_activity, messages, history, notifications,
                   inst, clock, next_id, created_with, edits,
                   marks, walk, users, request, thread>>

\* signals.py:146 raises on notification k+1; signals.py:156-157 logs it
EditNotifyFail(p, k) ==
    /\ pc[p] = "track"
    /\ k < Cardinality(EditRecipients(inst[p]))
    /\ RecordEditUpTo(p, k)

\* models.py:105 raises: the row is not written, the caller gets the exception
WriteFail(p) ==
    /\ pc[p] = "write"
    /\ inst' = [inst EXCEPT ![p] = SetReceiverIfNotProvided(inst[p])]
    /\ loc' = [loc EXCEPT ![p] = NoLocals]
    /\ pc' = [pc EXCEPT ![p] = "idle"]
    /\ UNCHANGED <<participants, last_activity, messages, history, notifications,
                   clock, next_id, created_with, edits,
                   marks, walk, users, request, thread>>

\* signals.py:177 raises on notification k+1 of a new message; signals.py:189-191
MessageNotifyFail(p, k) ==
    /\ pc[p] = "write"
    /\ ~Exists(inst[p].message_id)
    /\ k < Len(MessageRecipients(SetReceiverIfNotProvided(inst[p])))
    /\ WriteRowUpTo(p, k)

\* ------------------------------------------------------ read-state tracker

\* message LEFT OUTER JOIN conversation_participants, the join the filter on
\* conversation__participants makes: a row <<message, participant>> for every
\* participant of the message's conversation, <<message, None>> if it has none
JoinedRows(msgs) ==
    {r \in (DOMAIN msgs) \X (Users \cup {None}) :
        \/ r[2] \in participants[msgs[r[1]].conversation]
        \/ r[2] = None /\ participants[msgs[r[1]].conversation] = {}}

\* is_read=False lost from the filter: read messages are kept
UnreadJoinIn_IgnoreRead(msgs, u) ==
    {r \in JoinedRows(msgs) :
        /\ msgs[r[1]].receiver = u \/ r[2] = u
        /\ msgs[r[1]].sender # u}

\* managers.py:16-21: filter(Q(receiver=user) | Q(conversation__participants=
\* user), is_read=False).exclude(sender=user), over the table contents msgs
UnreadJoinIn(msgs, u) ==
    {r \in JoinedRows(msgs) :
        /\ msgs[r[1]].receiver = u \/ r[2] = u
        /\ msgs[r[1]].is_read = FALSE
        /\ msgs[r[1]].sender # u}

\* managers.py:32: .distinct() over the selected message columns
Distinct(rows) == {r[1] : r \in rows}

\* managers.py:11-32
UnreadForUserIn(msgs, u) == Distinct(UnreadJoinIn(msgs, u))

unread_for_user(u) == UnreadForUserIn(messages, u)

\* distinct() lost from the count: the joined rows are counted
UnreadCountIn_NoDistinct(msgs, u) == Cardinality(UnreadJoinIn(msgs, u))

\* managers.py:48-52: unread_for_user(user).count()
UnreadCountIn(msgs, u) == Cardinality(UnreadForUserIn(msgs, u))

unread_count_for_user(u) == UnreadCountIn(messages, u)

\* the arguments of a mark_as_read call besides the user: message_ids left out
\* (given = FALSE), or a list of ids, which may be empty or name no message
CallArgs ==
    {[given |-> FALSE, ids |-> {}]}
        \cup {[given |-> TRUE, ids |-> S] : S \in SUBSET (1..MaxMessages)}

\* the test of message_ids lost: without ids no message is selected
TargetsIn_NamedOnly(msgs, u, given, ids) == UnreadForUserIn(msgs, u) \cap ids

\* managers.py:40-43: the queryset mark_as_read updates
TargetsIn(msgs, u, given, ids) ==
    IF given /\ ids # {} THEN UnreadForUserIn(msgs, u) \cap ids
    ELSE UnreadForUserIn(msgs, u)

\* the rows read back, changed and written whole instead of one UPDATE
UpdatedTable_Stale(msgs, call) ==
    [m \in DOMAIN msgs |->
        IF m \in call.targets THEN [msgs[m] EXCEPT !.is_read = TRUE]
        ELSE IF m \in DOMAIN call.before THEN call.before[m]
        ELSE msgs[m]]

\* managers.py:45: queryset.update(is_read=True) on the selected rows
UpdatedTable(msgs, call) ==
    [m \in DOMAIN msgs |->
        IF m \in call.targets THEN [msgs[m] EXCEPT !.is_read = TRUE]
        ELSE msgs[m]]

\* request p is inside mark_as_read
Marking(p) == \E k \in 1..Len(marks) : marks[k].proc = p /\ ~marks[k].done

OpenCall(p) == CHOOSE k \in 1..Len(marks) : marks[k].proc = p /\ ~marks[k].done

\* managers.py:40-45, first half: mark_as_read(u, ids) builds its queryset and
\* the database selects the rows to update
MarkAsReadSelect(p, u, given, ids) ==
    /\ pc[p] = "idle"
    /\ ~Marking(p)
    /\ Len(marks) < MaxCalls
    /\ marks' = Append(marks,
                       [proc |-> p, user |-> u, given |-> given, ids |-> ids,
                        before |-> messages,
                        targets |-> TargetsIn(messages, u, given, ids),
                        done |-> FALSE, count |-> 0])
    /\ UNCHANGED <<participants, last_activity, messages, history, notifications,
                   inst, pc, loc, clock, next_id, created_with, edits, walk,
                   users, request, thread>>

\* managers.py:45-46, second half: the selected rows are updated and their
\* number is returned
MarkAsReadUpdate(p) ==
    /\ Marking(p)
    /\ messages' = UpdatedTable(messages, marks[OpenCall(p)])
    /\ marks' = [marks EXCEPT
                    ![OpenCall(p)].done = TRUE,
                    ![OpenCall(p)].count =
                        Cardinality(marks[OpenCall(p)].targets \cap DOMAIN messages)]
    /\ UNCHANGED <<participants, last_activity, history, notifications,
                   inst, pc, loc, clock, next_id, created_with, edits, walk,
                   users, request, thread>>

\* ------------------------------------------------------------ thread depth

ThreadSize == SafetyLimit + ChainSlack + 1

\* views.py:437-482: a thread in which message m + 1 is the reply to message
\* m. loop = None: message 1 is the root. Otherwise an update gave message 1
\* the parent_message loop (views.py:226-229, serializers.py:59-73: an update
\* accepts any message of the conversation as parent_message), which closes a
\* cycle of that length.
ThreadTable(loop) ==
    [m \in 1..ThreadSize |->
        [conversation |-> 1, sender |-> 1, receiver |-> None,
         parent_message |-> IF m = 1 THEN loop ELSE m - 1,
         content |-> Text(1, 1), is_read |-> FALSE, edited |-> FALSE,
         edited_at |-> None]]

DepthInit ==
    /\ participants = [c \in Conversations |-> {1}]
    /\ last_activity = [c \in Conversations |-> 0]
    /\ messages \in {ThreadTable(loop) : loop \in {None} \cup 1..MaxCycle}
    /\ history = <<>>
    /\ notifications = <<>>
    /\ inst = [p \in Procs |-> NoInstance]
    /\ pc = [p \in Procs |-> "idle"]
    /\ loc = [p \in Procs |-> NoLocals]
    /\ clock = 0
    /\ next_id = ThreadSize + 1
    /\ created_with = [m \in 1..ThreadSize |-> Text(1, 1)]
    /\ edits = [m \in 1..ThreadSize |-> 0]
    /\ marks = <<>>
    /\ walk = NoWalk
    /\ users = Users
    /\ request = NoRequest
    /\ thread = NoThread

\* the safety limit lost: the loop ends only at a message without parent
Break_Never(depth) == FALSE

\* models.py:124-125
Break(depth) == depth > SafetyLimit

\* the message itself counted as a hop
NewWalk_CountSelf(m, prev) ==
    [message |-> m, current |-> m, depth |-> 1, done |-> FALSE, prev |-> prev]

\* models.py:119-120: depth = 0, current = self; prev: the message of the
\* call before this one and the depth it returned
NewWalk(m, prev) ==
    [message |-> m, current |-> m, depth |-> 0, done |-> FALSE, prev |-> prev]

\* message m's get_thread_depth() is called (serializers.py:55-56)
GetThreadDepth(m) ==
    /\ Exists(m)
    /\ walk = NoWalk
    /\ users = Users
    /\ request = NoRequest
    /\ thread = NoThread
    /\ walk' = NewWalk(m, NoWalk)
    /\ UNCHANGED <<participants, last_activity, messages, history, notifications,
                   inst, pc, loc, clock, next_id, created_with, edits, marks,
                   users, request, thread>>

\* after the call for a message has returned, get_thread_depth() is called
\* for a reply m to that message
GetThreadDepthOfReply(m) ==
    /\ Exists(m)
    /\ walk # NoWalk
    /\ walk.done
    /\ walk.prev = NoWalk
    /\ messages[m].parent_message = walk.message
    /\ walk' = NewWalk(m, [message |-> walk.message, depth |-> walk.depth])
    /\ UNCHANGED <<participants, last_activity, messages, history, notifications,
                   inst, pc, loc, clock, next_id, created_with, edits, marks,
                   users, request, thread>>

\* models.py:121-126: one test of the while condition; the loop body if the
\* current message has a parent, the return if not or after the break
Hop ==
    /\ walk # NoWalk
    /\ ~walk.done
    /\ walk' =
          IF messages[walk.current].parent_message = None
          THEN [walk EXCEPT !.done = TRUE]
          ELSE [walk EXCEPT !.depth = walk.depth + 1,
                            !.current = messages[walk.current].parent_message,
                            !.done = Break(walk.depth + 1)]
    /\ UNCHANGED <<participants, last_activity, messages, history, notifications,
                   inst, pc, loc, clock, next_id, created_with, edits, marks,
                   users, request, thread>>

\* ------------------------------------------------------- thread retrieval

\* managers.py:88-107: get_message_with_thread(m) evaluates the argument of
\* prefetch_related first, which is the first call of get_replies_prefetch()
GetMessageWithThread(m) ==
    /\ thread.status # "building"
    /\ Exists(m)
    /\ thread' = [message |-> m, frames |-> 1, status |-> "building"]
    /\ UNCHANGED <<participants, last_activity, messages, history, notifications,
                   inst, pc, loc, clock, next_id, created_with, edits, marks,
                   walk, users, request>>

\* managers.py:92-99: the body of get_replies_prefetch() evaluates the
\* arguments of Prefetch(...), among them get_replies_prefetch() again, with
\* no condition in front of the call
GetRepliesPrefetch ==
    /\ thread.status = "building"
    /\ thread.frames < MaxFrames
    /\ thread' = [thread EXCEPT !.frames = thread.frames + 1]
    /\ UNCHANGED <<participants, last_activity, messages, history, notifications,
                   inst, pc, loc, clock, next_id, created_with, edits, marks,
                   walk, users, request>>

\* the interpreter refuses one more frame; views.py:430 catches only
\* Message.DoesNotExist, so the call ends with the exception
RaiseRecursionError ==
    /\ thread.status = "building"
    /\ thread.frames = MaxFrames
    /\ thread' = [thread EXCEPT !.status = "raised"]
    /\ UNCHANGED <<participants, last_activity, messages, history, notifications,
                   inst, pc, loc, clock, next_id, created_with, edits, marks,
                   walk, users, request>>

\* ---------------------------------------------------------------- views

\* the conversations of the message views: one more than Conversations, so
\* that a message and its parent can be in different conversations
ViewConversations == 1..(NumConversations + 1)

\* conversation c starts with the first NumUsers - c users (at least one):
\* the last user is in no conversation, the last but one in the first only
ViewInit ==
    /\ participants = [c \in ViewConversations |-> 1..Max({1, NumUsers - c})]
    /\ last_activity = [c \in ViewConversations |-> 0]
    /\ messages = <<>>
    /\ history = <<>>
    /\ notifications = <<>>
    /\ inst = [p \in Procs |-> NoInstance]
    /\ pc = [p \in Procs |-> "idle"]
    /\ loc = [p \in Procs |-> NoLocals]
    /\ clock = 0
    /\ next_id = 1
    /\ created_with = <<>>
    /\ edits = [m \in {} |-> 0]
    /\ marks = <<>>
    /\ walk = NoWalk
    /\ users = Users
    /\ request = NoRequest
    /\ thread = NoThread

\* a primary key as the column holds it (uuid.UUID) and as request.data
\* holds it (the text of the JSON or form value)
Uuid(c) == [uuid |-> c]
Str(c) == [str |-> c]

\* request.data of the message endpoints: the keys sent and their values
\* (the value of a key that is not sent is never looked at)
RequestData ==
    {d \in [keys : {{"content"}, {"parent_message"}, {"conversation"},
                    {"conversation", "content"},
                    {"conversation", "content", "parent_message"}},
            conversation : ViewConversations,
            content : Contents,
            parent_message : (1..MaxMessages) \cup {None}] :
        /\ "conversation" \notin d.keys => d.conversation = 1
        /\ "content" \notin d.keys => d.content = Text(1, 1)
        /\ "parent_message" \notin d.keys => d.parent_message = None}

\* the messages of table msgs that a delete of the messages in S removes with
\* them: parent_message is on_delete=CASCADE (models.py:64-70)
RECURSIVE WithRepliesIn(_, _)
WithRepliesIn(msgs, S) ==
    LET replies == {m \in DOMAIN msgs : msgs[m].parent_message \in S} IN
    IF replies \subseteq S THEN S ELSE WithRepliesIn(msgs, S \cup replies)

WithReplies(S) == WithRepliesIn(messages, S)

\* views.py:231-241 and get_object(): the message is looked up in the
\* messages of the conversations the requester participates in
InQueryset(u, m) == Exists(m) /\ u \in participants[messages[m].conversation]

\* permissions.py:42-65 for a message
IsParticipantOfConversation(u, m, method) ==
    LET is_participant == u \in participants[messages[m].conversation] IN
    IF method \in {"PUT", "PATCH", "DELETE"}
    THEN is_participant /\ messages[m].sender = u
    ELSE is_participant

\* permissions.py:91-100
IsMessageOwner(u, m, method) ==
    IF method \in {"GET", "HEAD", "OPTIONS"} THEN TRUE
    ELSE IF method \in {"PUT", "PATCH", "DELETE"} THEN messages[m].sender = u
    ELSE FALSE

\* serializers.py:64-73; the comparison is between the UUID of the column
\* and the value as it came in the request
ValidParentMessage(data) ==
    LET value == data.parent_message IN
    \/ value = None
    \/ "conversation" \notin data.keys
    \/ Uuid(messages[value].conversation) = Str(data.conversation)

\* serializer.is_valid(): conversation and content are required unless the
\* update is partial; a parent_message that is given must exist
IsValid(data, partial) ==
    /\ partial \/ {"conversation", "content"} \subseteq data.keys
    /\ "parent_message" \in data.keys =>
          /\ data.parent_message = None \/ Exists(data.parent_message)
          /\ ValidParentMessage(data)

\* serializer.update(): the fields sent replace those of the instance
Updated(i, data) ==
    [i EXCEPT
        !.conversation =
            IF "conversation" \in data.keys THEN data.conversation ELSE @,
        !.content = IF "content" \in data.keys THEN data.content ELSE @,
        !.parent_message =
            IF "parent_message" \in data.keys THEN data.parent_message ELSE @]

\* check_object_permissions lost: whoever can look the message up may change it
ObjectOutcome_NoObjectPermissions(u, m, method) ==
    IF ~InQueryset(u, m) THEN "not_found" ELSE "ok"

\* the answer to a PUT, PATCH or DELETE of message m by user u: get_object()
\* looks the message up, then asks every permission class about it
ObjectOutcome(u, m, method) ==
    IF ~InQueryset(u, m) THEN "not_found"
    ELSE IF ~(IsParticipantOfConversation(u, m, method) /\ IsMessageOwner(u, m, method))
    THEN "denied"
    ELSE "ok"

\* PUT or PATCH /messages/m/ by user u (views.py:226-229, UpdateModelMixin);
\* a PUT must send the required fields, a PATCH may send them
ViewUpdate(p, u, m, data) ==
    LET method == IF {"conversation", "content"} \subseteq data.keys
                  THEN "PUT" ELSE "PATCH"
        checked == ObjectOutcome(u, m, method)
        outcome == IF checked = "ok" /\ ~IsValid(data, method = "PATCH")
                   THEN "invalid" ELSE checked
    IN
    /\ pc[p] = "idle"
    /\ request' = [method |-> method, user |-> u, message |-> m,
                   response |-> outcome]
    /\ IF outcome = "ok"
       THEN /\ BeginSave(p, Updated(InstanceOf(m), data), FALSE, None)
            /\ UNCHANGED next_id
       ELSE UNCHANGED <<participants, last_activity, messages, history,
                        notifications, inst, pc, loc, clock, next_id,
                        created_with, edits, marks, walk, users, thread>>

\* DELETE /messages/m/ by user u (DestroyModelMixin): the message goes with
\* its replies, and with the history and the notifications of all of them
ViewDestroy(p, u, m) ==
    LET outcome == ObjectOutcome(u, m, "DELETE")
        gone == WithReplies({m})
    IN
    /\ pc[p] = "idle"
    /\ request' = [method |-> "DELETE", user |-> u, message |-> m,
                   response |-> outcome]
    /\ IF outcome = "ok"
       THEN /\ messages' = [k \in DOMAIN messages \ gone |-> messages[k]]
            /\ history' = SelectSeq(history, LAMBDA r : r.message \notin gone)
            /\ notifications' =
                  SelectSeq(notifications, LAMBDA n : n.message \notin gone)
       ELSE UNCHANGED <<messages, history, notifications>>
    /\ UNCHANGED <<participants, last_activity, inst, pc, loc, clock, next_id,
                   created_with, edits, marks, walk, users, thread>>

\* POST /messages/ by user u (permissions.py:22-31, views.py:250-252)
ViewCreate(p, u, data) ==
    LET outcome ==
            IF \/ "conversation" \notin data.keys
               \/ u \notin participants[data.conversation]
            THEN "denied"
            ELSE IF ~IsValid(data, FALSE) THEN "invalid"
            ELSE "ok"
    IN
    /\ pc[p] = "idle"
    /\ next_id <= MaxMessages
    /\ request' = [method |-> "POST", user |-> u, message |-> next_id,
                   response |-> outcome]
    /\ IF outcome = "ok"
       THEN /\ next_id' = next_id + 1
            /\ BeginSave(p, [message_id |-> next_id,
                             conversation |-> data.conversation,
                             sender |-> u, receiver |-> None,
                             parent_message |->
                                 IF "parent_message" \in data.keys
                                 THEN data.parent_message ELSE None,
                             content |-> data.content,
                             is_read |-> FALSE, edited |-> FALSE,
                             edited_at |-> None],
                         TRUE, None)
       ELSE UNCHANGED <<participants, last_activity, messages, history,
                        notifications, inst, pc, loc, clock, next_id,
                        created_with, edits, marks, walk, users, thread>>

\* POST /messages/q/reply/ by user u (views.py:437-482)
ViewReply(p, u, q, data) ==
    LET outcome ==
            IF \/ "conversation" \notin data.keys
               \/ u \notin participants[data.conversation]
            THEN "denied"
            ELSE IF ~Exists(q) THEN "not_found"
            ELSE IF u \notin participants[messages[q].conversation] THEN "denied"
            ELSE IF ~IsValid(data, FALSE) THEN "invalid"
            ELSE IF data.conversation # messages[q].conversation THEN "invalid"
            ELSE "ok"
    IN
    /\ pc[p] = "idle"
    /\ next_id <= MaxMessages
    /\ request' = [method |-> "POST", user |-> u, message |-> next_id,
                   response |-> outcome]
    /\ IF outcome = "ok"
       THEN /\ next_id' = next_id + 1
            /\ BeginSave(p, [message_id |-> next_id,
                             conversation |-> messages[q].conversation,
                             sender |-> u, receiver |-> None,
                             parent_message |-> q,
                             content |-> data.content,
                             is_read |-> FALSE, edited |-> FALSE,
                             edited_at |-> None],
                         TRUE, None)
       ELSE UNCHANGED <<participants, last_activity, messages, history,
                        notifications, inst, pc, loc, clock, next_id,
                        created_with, edits, marks, walk, users, thread>>

\* ------------------------------------------------------------ user deletion

\* signals.py:71
Tombstone == <<0>>

\* the tables a deletion works on
Tables ==
    [participants |-> participants, last_activity |-> last_activity,
     messages |-> messages, history |-> history, notifications |-> notifications]

\* the messages in S deleted, with the history and the notifications that
\* refer to them (models.py:135-136, 166-167: on_delete=CASCADE)
WithoutMessages(db, S) ==
    [db EXCEPT
        !.messages = [m \in DOMAIN db.messages \ S |-> db.messages[m]],
        !.history = SelectSeq(db.history, LAMBDA r : r.message \notin S),
        !.notifications =
            SelectSeq(db.notifications, LAMBDA n : n.message \notin S)]

\* user.delete() before post_delete is sent: the collector deletes what refers
\* to user a through a CASCADE foreign key (models.py:58-61 sender and
\* receiver, 139-140 edited_by, 164-165 Notification.user) and the rows of
\* the participants table (models.py:37)
Collect(db, a) ==
    LET referring == {m \in DOMAIN db.messages :
                         db.messages[m].sender = a \/ db.messages[m].receiver = a}
        after == WithoutMessages(db, WithRepliesIn(db.messages, referring))
    IN
    [after EXCEPT
        !.history = SelectSeq(after.history, LAMBDA r : r.edited_by # a),
        !.notifications = SelectSeq(after.notifications, LAMBDA n : n.user # a),
        !.participants = [c \in DOMAIN db.participants |-> db.participants[c] \ {a}]]

\* signals.py:25-40: the conversations that still list the user; those with
\* nobody else are deleted with their messages, the others lose the user
CleanupConversations(db, a) ==
    LET user_conversations == {c \in DOMAIN db.participants : a \in db.participants[c]}
        empty == {c \in user_conversations : db.participants[c] \ {a} = {}}
        theirs == {m \in DOMAIN db.messages : db.messages[m].conversation \in empty}
        after == WithoutMessages(db, WithRepliesIn(db.messages, theirs))
    IN
    [after EXCEPT
        !.participants =
            [c \in DOMAIN db.participants \ empty |-> db.participants[c] \ {a}],
        !.last_activity =
            [c \in DOMAIN db.last_activity \ empty |-> db.last_activity[c]]]

\* signals.py:50-58
CleanupHistory(db, a) ==
    [db EXCEPT !.history = SelectSeq(db.history, LAMBDA r : r.edited_by # a)]

\* signals.py:60-77: update(sender=None, ...) writes NULL into a column that is
\* NOT NULL (models.py:58-59); the IntegrityError goes to the except clause
\* (signals.py:81-83) and the update of the received messages is not reached
CleanupMessages(db, a) ==
    LET sent == {m \in DOMAIN db.messages : db.messages[m].sender = a} IN
    IF sent # {} THEN db
    ELSE [db EXCEPT
            !.messages =
                [m \in DOMAIN db.messages |->
                    [db.messages[m] EXCEPT !.receiver = IF @ = a THEN None ELSE @]]]

\* signals.py:12-83, the post_delete handler of User
cleanup_user_data(db, a) ==
    CleanupMessages(CleanupHistory(CleanupConversations(db, a), a), a)

\* views.py:25-80: user a deletes the own account; without the confirmation
\* the answer is 400 and nothing is deleted
DeleteUser(a, confirmation) ==
    LET after == cleanup_user_data(Collect(Tables, a), a) IN
    /\ a \in users
    /\ request' = [method |-> "delete_user", user |-> a, message |-> None,
                   response |-> IF confirmation THEN "ok" ELSE "invalid"]
    /\ IF confirmation
       THEN /\ users' = users \ {a}
            /\ participants' = after.participants
            /\ last_activity' = after.last_activity
            /\ messages' = after.messages
            /\ history' = after.history
            /\ notifications' = after.notifications
       ELSE UNCHANGED <<users, participants, last_activity, messages, history,
                        notifications>>
    /\ UNCHANGED <<inst, pc, loc, clock, next_id, created_with, edits, marks,
                   walk, thread>>

\* -------------------------------------------------------------- admin site

\* admin.py:50-56: the change view of MessageHistoryAdmin saves row k with the
\* values of the form; old_content and new_content are not among its
\* readonly_fields (nor among those of MessageHistoryInline, admin.py:9)
AdminChangeHistory(k, old, new) ==
    /\ k \in 1..Len(history)
    /\ history' = [history EXCEPT ![k].old_content = old, ![k].new_content = new]
    /\ UNCHANGED <<participants, last_activity, messages, notifications, inst, pc,
                   loc, clock, next_id, created_with, edits, marks, walk, users,
                   request, thread>>

\* admin.py:50-56: the delete view of MessageHistoryAdmin deletes row k
AdminDeleteHistory(k) ==
    /\ k \in 1..Len(history)
    /\ history' = [j \in 1..(Len(history) - 1) |->
                      IF j < k THEN history[j] ELSE history[j + 1]]
    /\ UNCHANGED <<participants, last_activity, messages, notifications, inst, pc,
                   loc, clock, next_id, created_with, edits, marks, walk, users,
                   request, thread>>

\* ---------------------------------------------------------- specifications

Step(p) ==
    \/ \E c \in Conversations, s \in Users, r \in Users \cup {None}, x \in Contents :
          Create(p, c, s, r, x)
    \/ \E m \in 1..MaxMessages : Load(p, m)
    \/ \E x \in Contents : Save(p, x)
    \/ RecordEdit(p)
    \/ WriteRow(p)

\* Requests served concurrently, storage never fails.
Next == \E p \in Procs : Step(p)

Spec == Init /\ [][Next]_vars

\* One save() at a time: a save runs to its end before another one starts.
Alone(p) == \A q \in Procs \ {p} : pc[q] = "idle"

SeqNext ==
    \E p \in Procs :
        \/ \E c \in Conversations, s \in Users, r \in Users \cup {None}, x \in Contents :
              Alone(p) /\ Create(p, c, s, r, x)
        \/ \E m \in 1..MaxMessages : Alone(p) /\ Load(p, m)
        \/ \E x \in Contents : Alone(p) /\ Save(p, x)
        \/ Alone(p) /\ RecordEdit(p)
        \/ Alone(p) /\ WriteRow(p)

SeqSpec == Init /\ [][SeqNext]_vars

\* A single request at a time, and a storage write may raise.
FaultNext ==
    \E p \in {1} :
        \/ \E c \in Conversations, s \in Users, r \in Users \cup {None}, x \in Contents :
              Create(p, c, s, r, x)
        \/ \E m \in 1..MaxMessages : Load(p, m)
        \/ \E x \in Contents : Save(p, x)
        \/ RecordEdit(p)
        \/ WriteRow(p)
        \/ HistoryFail(p)
        \/ \E k \in 0..NumUsers : EditNotifyFail(p, k)
        \/ WriteFail(p)
        \/ \E k \in 0..NumUsers : MessageNotifyFail(p, k)

FaultSpec == Init /\ [][FaultNext]_vars

\* A single request at a time, and only Notification.objects.create may raise.
NotifyFaultNext ==
    \E p \in {1} :
        \/ \E c \in Conversations, s \in Users, r \in Users \cup {None}, x \in Contents :
              Create(p, c, s, r, x)
        \/ \E m \in 1..MaxMessages : Load(p, m)
        \/ \E x \in Contents : Save(p, x)
        \/ RecordEdit(p)
        \/ WriteRow(p)
        \/ \E k \in 0..NumUsers : EditNotifyFail(p, k)
        \/ \E k \in 0..NumUsers : MessageNotifyFail(p, k)

NotifyFaultSpec == Init /\ [][NotifyFaultNext]_vars

\* Messages with contents around the preview limit are created, one at a time.
PreviewNext ==
    \E p \in {1} :
        \/ \E c \in Conversations, s \in Users, r \in Users \cup {None},
              x \in LongContents : Create(p, c, s, r, x)
        \/ WriteRow(p)

PreviewSpec == Init /\ [][PreviewNext]_vars

\* Messages are created and mark_as_read is called, one operation at a time.
ReadNext ==
    \E p \in {1} :
        \/ \E c \in Conversations, s \in Users, r \in Users \cup {None} :
              ~Marking(p) /\ Create(p, c, s, r, Text(1, 1))
        \/ WriteRow(p)
        \/ \E u \in Users, a \in CallArgs : MarkAsReadSelect(p, u, a.given, a.ids)
        \/ MarkAsReadUpdate(p)

ReadSpec == Init /\ [][ReadNext]_vars

\* Messages are created; then two requests of one user call mark_as_read
\* concurrently.
RaceNext ==
    \/ \E c \in Conversations, s \in Users, r \in Users \cup {None} :
          marks = <<>> /\ Create(1, c, s, r, Text(1, 1))
    \/ marks = <<>> /\ WriteRow(1)
    \/ \E p \in Procs, u \in Users, a \in CallArgs :
          /\ pc[1] = "idle"
          /\ \A k \in 1..Len(marks) : marks[k].user = u
          /\ MarkAsReadSelect(p, u, a.given, a.ids)
    \/ \E p \in Procs : MarkAsReadUpdate(p)

RaceSpec == Init /\ [][RaceNext]_vars

\* get_thread_depth is called for a message of a thread, then for a reply to it.
DepthNext ==
    \/ \E m \in 1..ThreadSize : GetThreadDepth(m)
    \/ \E m \in 1..ThreadSize : GetThreadDepthOfReply(m)
    \/ Hop

DepthSpec == DepthInit /\ [][DepthNext]_vars

\* Messages are created one at a time and the thread view is called.
ThreadNext ==
    \/ \E c \in Conversations, s \in Users, r \in Users \cup {None}, x \in Contents :
          Create(1, c, s, r, x)
    \/ WriteRow(1)
    \/ \E m \in 1..MaxMessages : GetMessageWithThread(m)
    \/ GetRepliesPrefetch
    \/ RaiseRecursionError

ThreadSpec == Init /\ [][ThreadNext]_vars

\* The message endpoints, one request at a time.
ViewNext ==
    \/ \E u \in Users, data \in RequestData : ViewCreate(1, u, data)
    \/ \E u \in Users, q \in 1..MaxMessages, data \in RequestData :
          ViewReply(1, u, q, data)
    \/ \E u \in Users, m \in 1..MaxMessages, data \in RequestData :
          ViewUpdate(1, u, m, data)
    \/ \E u \in Users, m \in 1..MaxMessages : ViewDestroy(1, u, m)
    \/ RecordEdit(1)
    \/ WriteRow(1)

ViewSpec == ViewInit /\ [][ViewNext]_vars

\* Users create and edit messages, one save at a time, and delete their
\* accounts; a deleted user sends and receives nothing more.
DeleteNext ==
    \/ \E c \in Conversations, s \in users, r \in users \cup {None}, x \in Contents :
          Create(1, c, s, r, x)
    \/ \E m \in 1..MaxMessages : Load(1, m)
    \/ \E x \in Contents : Save(1, x)
    \/ RecordEdit(1)
    \/ WriteRow(1)
    \/ \E a \in Users, confirmation \in BOOLEAN :
          pc[1] = "idle" /\ DeleteUser(a, confirmation)

DeleteSpec == Init /\ [][DeleteNext]_vars

\* Messages are created and edited, one save at a time, and a staff user
\* works on the history rows in the admin site.
AdminNext ==
    \/ \E c \in Conversations, s \in Users, r \in Users \cup {None}, x \in Contents :
          Create(1, c, s, r, x)
    \/ \E m \in 1..MaxMessages : Load(1, m)
    \/ \E x \in Contents : Save(1, x)
    \/ RecordEdit(1)
    \/ WriteRow(1)
    \/ \E k \in 1..MaxSaves, old \in Contents, new \in Contents :
          AdminChangeHistory(k, old, new)
    \/ \E k \in 1..MaxSaves : AdminDeleteHistory(k)

AdminSpec == Init /\ [][AdminNext]_vars

\* One request creates, loads and saves messages while another one calls
\* mark_as_read for all unread messages of a user.
StaleNext ==
    \/ \E c \in Conversations, s \in Users, r \in Users \cup {None} :
          Create(1, c, s, r, Text(1, 1))
    \/ \E m \in 1..MaxMessages : Load(1, m)
    \/ \E x \in Contents : Save(1, x)
    \/ RecordEdit(1)
    \/ WriteRow(1)
    \/ \E u \in Users : MarkAsReadSelect(2, u, FALSE, {})
    \/ MarkAsReadUpdate(2)

StaleSpec == Init /\ [][StaleNext]_vars

\* ------------------------------------------------------------- properties

Quiescent == \A p \in Procs : pc[p] = "idle"

\* the rows a step adds to the notification table
NewNotifications ==
    SubSeq(notifications', Len(notifications) + 1, Len(notifications'))

\* how many rows of the table rows satisfy Test
CountRows(rows, Test(_)) == Cardinality({j \in 1..Len(rows) : Test(rows[j])})

\* rows holds exactly one notification of type t about message m for every user
\* of the set recipients, and nothing else
NotifiesExactly(rows, recipients, t, m) ==
    /\ Len(rows) = Cardinality(recipients)
    /\ \A u \in recipients :
          CountRows(rows, LAMBDA n : /\ n.user = u
                                     /\ n.notification_type = t
                                     /\ n.message = m) = 1

\* p's step starts a save() / p's step ends a save()
Starts(p) == pc[p] = "idle" /\ pc'[p] # "idle"

Ends(p) == pc[p] # "idle" /\ pc'[p] = "idle"

\* C1: whenever no save is in progress, a stored message has edited = true if
\* and only if at least one MessageHistory row references it.
C1_EditedIffHistory ==
    Quiescent =>
        \A m \in DOMAIN messages : messages[m].edited <=> HistoryOf(m) # <<>>

\* C2: after N content-changing edits of a message applied one after another,
\* its history has N rows and the k-th row created carries version number k.
C2_VersionsContiguous ==
    Quiescent =>
        \A m \in DOMAIN messages :
            /\ Len(HistoryOf(m)) = edits[m]
            /\ \A k \in 1..Len(HistoryOf(m)) : HistoryOf(m)[k].version_number = k

C2_Witness ==
    /\ Quiescent
    /\ \E m \in DOMAIN messages : edits[m] >= 2 /\ Len(HistoryOf(m)) >= 2

C4_HistoryFailureFailsUpdate ==
    [][\A p \in Procs :
          (Ends(p) /\ loc[p].history_failed) => messages' = messages]_vars

\* C5: when a create or an edit ends, either the message row, the history row
\* (for an edit), all its notifications and the conversation's last_activity
\* are stored, or none of them is.
C5_SaveIsAtomic ==
    [][\A p \in Procs :
          (Ends(p) /\ (loc[p].adding \/ loc[p].version_number # 0)) =>
            LET id == inst[p].message_id
                rowStored ==
                    id \in DOMAIN messages' /\ messages'[id] = RowOf(inst'[p])
                historyStored == loc[p].history_written
                notificationsStored ==
                    IF loc[p].adding
                    THEN Len(NewNotifications) = Len(MessageRecipients(inst'[p]))
                    ELSE loc[p].notified = Cardinality(EditRecipients(inst[p]))
                noNotificationStored ==
                    notifications' = notifications /\ loc[p].notified = 0
                activityStored ==
                    last_activity'[inst[p].conversation] = loc[p].now
            IN  \/ /\ rowStored
                   /\ loc[p].adding \/ historyStored
                   /\ notificationsStored
                   /\ activityStored
                \/ /\ ~rowStored
                   /\ ~historyStored
                   /\ noNotificationStored
                   /\ ~activityStored]_vars

\* C6: a save that creates a message goes past the edit tracking, and the row
\* it inserts has no history, edited = false and edited_at unset; a save of an
\* existing message whose content equals the stored content goes past the edit
\* tracking too, and ends having added no history row and no notification and
\* with the instance's edited and edited_at as they were.
C6_NoHistoryWithoutEdit ==
    [][\A p \in Procs :
          /\ (Starts(p) /\ loc'[p].adding) => pc'[p] = "write"
          /\ ( /\ Starts(p)
               /\ ~loc'[p].adding
               /\ messages[inst'[p].message_id].content = inst'[p].content )
                => /\ pc'[p] = "write"
                   /\ loc'[p].version_number = 0
                   /\ inst'[p].edited = inst[p].edited
                   /\ inst'[p].edited_at = inst[p].edited_at
          /\ (Ends(p) /\ loc[p].version_number = 0)
                => /\ history' = history
                   /\ CountRows(NewNotifications,
                                LAMBDA n : n.notification_type = "edit") = 0
                   /\ inst'[p].edited = inst[p].edited
                   /\ inst'[p].edited_at = inst[p].edited_at
          /\ (Ends(p) /\ loc[p].adding /\ inst[p].message_id \in DOMAIN messages')
                => /\ HistoryIn(history', inst[p].message_id) = <<>>
                   /\ ~messages'[inst[p].message_id].edited
                   /\ messages'[inst[p].message_id].edited_at = None]_vars

C6_Witness ==
    \E p \in Procs :
        /\ pc[p] = "write"
        /\ ~loc[p].adding
        /\ loc[p].version_number = 0
        /\ Exists(inst[p].message_id)
        /\ inst[p].content = messages[inst[p].message_id].content
        /\ HistoryOf(inst[p].message_id) # <<>>

\* C7: once a message's stored edited flag is true, no step sets it to false.
C7_EditedIsOneWay ==
    [][\A m \in DOMAIN messages : messages[m].edited => messages'[m].edited]_vars

\* C8: the save that creates a message adds exactly one notification of type
\* 'message' for the receiver the caller gave, or, when the caller gave none,
\* exactly one for every participant of the conversation except the sender.
C8_CreateNotifiesRecipients ==
    [][\A p \in Procs :
          (Ends(p) /\ loc[p].adding /\ inst[p].message_id \in DOMAIN messages') =>
            NotifiesExactly(
                NewNotifications,
                IF loc[p].receiver_arg # None THEN {loc[p].receiver_arg}
                ELSE participants[inst[p].conversation] \ {inst[p].sender},
                "message", inst[p].message_id)]_vars

\* C9: a save of an existing message whose content differs from the stored
\* content reaches the edit tracking, which adds exactly one notification of
\* type 'edit' for every participant of the conversation except the editor
\* (the message's sender) and no other notification.
C9_EditNotifiesOthers ==
    [][\A p \in Procs :
          /\ ( /\ Starts(p)
               /\ ~loc'[p].adding
               /\ messages[inst'[p].message_id].content # inst'[p].content )
                => pc'[p] = "track"
          /\ (pc[p] = "track" /\ pc'[p] = "write")
                => NotifiesExactly(
                       NewNotifications,
                       participants[inst[p].conversation] \ {inst[p].sender},
                       "edit", inst[p].message_id)]_vars

C9_Witness ==
    \E i, j \in 1..Len(notifications) :
        /\ notifications[i].notification_type = "edit"
        /\ notifications[j].notification_type = "edit"
        /\ notifications[i].message = notifications[j].message
        /\ notifications[i].user # notifications[j].user
        /\ Len(HistoryOf(notifications[i].message)) = 1

\* C10: no notification is addressed to the user whose action caused it (the
\* sender of the new message, the editor of the edited one).
C10_ActorNotNotified ==
    \A i \in 1..Len(notifications) : notifications[i].user # notifications[i].by

\* C11: when nothing but the creation of notifications can fail, every create
\* and every save of an existing message ends with the message row stored as
\* the instance holds it (the new content included), and every edit ends with
\* its MessageHistory row stored, however many notifications were created.
C11_NotificationFailureKeepsWrite ==
    [][\A p \in Procs :
          /\ (pc[p] = "track" /\ pc'[p] # "track") =>
                /\ pc'[p] = "write"
                /\ Len(history') = Len(history) + 1
                /\ history'[Len(history')] =
                      [message |-> inst[p].message_id,
                       old_content |-> messages[inst[p].message_id].content,
                       new_content |-> inst[p].content,
                       edited_by |-> inst[p].sender,
                       version_number |-> loc[p].version_number]
          /\ Ends(p) =>
                LET id == inst[p].message_id IN
                /\ id \in DOMAIN messages'
                /\ messages'[id].content = inst[p].content
                /\ messages'[id] = RowOf(inst'[p])
                /\ history' = history
                /\ loc[p].version_number # 0 =>
                      \E k \in 1..Len(history) :
                          /\ history[k].message = id
                          /\ history[k].version_number = loc[p].version_number
                          /\ history[k].new_content = messages'[id].content]_vars

\* a message was created and then edited, no notification could be created for
\* either, and the row, the new content and the history row are stored
C11_Witness ==
    /\ Quiescent
    /\ notifications = <<>>
    /\ \E m \in DOMAIN messages :
          /\ messages[m].receiver # None
          /\ EditRecipients(InstanceOf(m)) # {}
          /\ Len(HistoryOf(m)) = 1
          /\ HistoryOf(m)[1].old_content = created_with[m]
          /\ messages[m].content = HistoryOf(m)[1].new_content
          /\ messages[m].content # created_with[m]

\* C12: the notification of a created message whose content is longer than 100
\* characters holds the first 100 characters followed by the three characters
\* of the marker and nothing else (103 characters); the notification of a
\* message of 100 characters or fewer holds the content unchanged.
C12_PreviewTruncation ==
    \A j \in 1..Len(notifications) :
        notifications[j].notification_type = "message" =>
            LET content == created_with[notifications[j].message]
                preview == notifications[j].content[1]
            IN  IF Len(content) > 100
                THEN /\ Len(preview) = 103
                     /\ Len(preview) <= 103
                     /\ \A k \in 1..100 : preview[k] = content[k]
                     /\ \A k \in 101..103 : preview[k] = Ellipsis[k - 100]
                ELSE preview = content

\* one message of exactly 100 characters and one of more than 100 were created
\* and notified
C12_Witness ==
    \E i, j \in 1..Len(notifications) :
        /\ notifications[i].notification_type = "message"
        /\ notifications[j].notification_type = "message"
        /\ Len(created_with[notifications[i].message]) = 100
        /\ Len(notifications[i].content[1]) = 100
        /\ Len(created_with[notifications[j].message]) > 100
        /\ Len(notifications[j].content[1]) = 103

\* C13: for every user u, unread_for_user(u) is exactly the set of
\* the messages that are not read, were not sent by u and belong to a
\* conversation of which u is a participant.
C13_UnreadOnlyWhereParticipant ==
    \A u \in Users :
        unread_for_user(u) =
            {m \in DOMAIN messages :
                /\ ~messages[m].is_read
                /\ messages[m].sender # u
                /\ u \in participants[messages[m].conversation]}

\* a step that ends the k-th mark_as_read call
Returns(k) == k \in 1..Len(marks) /\ ~marks[k].done /\ marks'[k].done

\* C14: a mark_as_read(u) call without ids returns the value
\* unread_count_for_user(u) had when it was called, leaves read = true on every
\* message unread_for_user(u) held then, and leaves unread_count_for_user(u) = 0.
C14_MarkAllAsRead ==
    [][\A k \in 1..Len(marks) :
          (Returns(k) /\ ~marks[k].given) =>
            /\ marks'[k].count = UnreadCountIn(marks[k].before, marks[k].user)
            /\ marks'[k].count = unread_count_for_user(marks[k].user)
            /\ \A m \in UnreadForUserIn(marks[k].before, marks[k].user) :
                  messages'[m].is_read
            /\ UnreadCountIn(messages', marks[k].user) = 0]_vars

\* a call without ids marked a message and returned 1, while a message its
\* caller sent stays unread
C14_Witness ==
    \E k \in 1..Len(marks) :
        /\ marks[k].done
        /\ ~marks[k].given
        /\ marks[k].count = 1
        /\ unread_count_for_user(marks[k].user) = 0
        /\ \E m \in DOMAIN messages :
              messages[m].sender = marks[k].user /\ ~messages[m].is_read
        /\ \E m \in DOMAIN messages :
              /\ messages[m].is_read
              /\ ~marks[k].before[m].is_read

\* the k-th call repeats the call before it: same user, same ids, and the
\* table it finds is the table the call before it left
Repeats(k) ==
    /\ k \in 2..Len(marks)
    /\ marks[k - 1].done
    /\ marks[k].user = marks[k - 1].user
    /\ marks[k].given = marks[k - 1].given
    /\ marks[k].ids = marks[k - 1].ids
    /\ marks[k].before =
          [m \in DOMAIN marks[k - 1].before |->
              IF m \in marks[k - 1].targets
              THEN [marks[k - 1].before[m] EXCEPT !.is_read = TRUE]
              ELSE marks[k - 1].before[m]]

\* C15: a mark_as_read call that repeats the call before it, with nothing done
\* in between, changes no message and returns 0, and every message the first
\* call marked is still read.
C15_MarkAsReadIdempotent ==
    [][\A k \in 1..Len(marks) :
          (Returns(k) /\ Repeats(k)) =>
            /\ messages' = messages
            /\ marks'[k].count = 0
            /\ \A m \in marks[k - 1].targets : messages'[m].is_read]_vars

\* a call that named two messages and marked one of them was repeated and
\* returned 0
C15_Witness ==
    /\ Len(marks) >= 2
    /\ Repeats(2)
    /\ marks[2].done
    /\ marks[1].given
    /\ Cardinality(marks[1].ids) = 2
    /\ marks[1].count = 1
    /\ marks[2].count = 0
    /\ \A m \in marks[1].targets : messages[m].is_read

\* the table after the calls order[1], ..., order[n] of marks were run on the
\* table msgs one after another, each from its beginning to its end
RECURSIVE RunInOrder(_, _, _)
RunInOrder(msgs, order, n) ==
    IF n = 0 THEN msgs
    ELSE LET sofar == RunInOrder(msgs, order, n - 1)
             call == marks[order[n]]
             selected == {m \in DOMAIN sofar :
                            /\ ~sofar[m].is_read
                            /\ sofar[m].sender # call.user
                            /\ \/ sofar[m].receiver = call.user
                               \/ call.user \in participants[sofar[m].conversation]
                            /\ (call.given /\ call.ids # {}) => m \in call.ids}
         IN  [m \in DOMAIN sofar |->
                 IF m \in selected THEN [sofar[m] EXCEPT !.is_read = TRUE]
                 ELSE sofar[m]]

\* two or more calls of one user were made and all have returned
RaceOver ==
    /\ Len(marks) >= 2
    /\ \A k \in 1..Len(marks) : marks[k].done /\ marks[k].user = marks[1].user

\* C16: when two or more mark_as_read calls of one user have all returned,
\* however their steps were interleaved, every message a call named among the
\* user's unread messages is read, and the table is the one that running the
\* calls one after another, in any order, gives.
C16_MarkAsReadConverges ==
    RaceOver =>
        /\ \A k \in 1..Len(marks) :
              \A m \in UnreadForUserIn(marks[1].before, marks[1].user) :
                  (~(marks[k].given /\ marks[k].ids # {}) \/ m \in marks[k].ids)
                      => messages[m].is_read
        /\ \A order \in Permutations(1..Len(marks)) :
              messages = RunInOrder(marks[1].before, order, Len(marks))

\* two calls selected their rows before either updated them; they named
\* overlapping, different sets of the user's unread messages
C16_Witness ==
    /\ RaceOver
    /\ marks[1].proc # marks[2].proc
    /\ marks[2].before = marks[1].before
    /\ marks[1].targets \cap marks[2].targets # {}
    /\ marks[1].targets # marks[2].targets
    /\ \A m \in marks[1].targets \cup marks[2].targets : messages[m].is_read

\* C17: in every state and for every user u, unread_count_for_user(u) is the
\* number of messages that iterating unread_for_user(u) yields.
C17_CountMatchesList ==
    \A u \in Users : unread_count_for_user(u) = Len(InOrder(unread_for_user(u)))

\* a user has two unread messages, and the join behind the queryset holds more
\* than two rows for them
C17_Witness ==
    \E u \in Users :
        /\ unread_count_for_user(u) = 2
        /\ Len(InOrder(unread_for_user(u))) = 2
        /\ Cardinality(UnreadJoinIn(messages, u)) > 2

\* a get_thread_depth call has returned
Returned == walk # NoWalk /\ walk.done

\* C18 as stated: get_thread_depth returns 0 for a message without parent, and
\* for a message with a parent the value it returns for the parent plus 1.
C18_DepthIsParentDepthPlusOne ==
    Returned =>
        /\ messages[walk.message].parent_message = None => walk.depth = 0
        /\ walk.prev # NoWalk => walk.depth = walk.prev.depth + 1

\* C18: get_thread_depth returns 0 for a message without parent; for a message
\* with a parent it returns the value it returns for the parent plus 1 if that
\* value is at most 100, and the value it returns for the parent if not.
C18_DepthIsParentDepthPlusOneUpToLimit ==
    Returned =>
        /\ messages[walk.message].parent_message = None => walk.depth = 0
        /\ (walk.prev # NoWalk /\ walk.prev.depth <= 100)
              => walk.depth = walk.prev.depth + 1
        /\ (walk.prev # NoWalk /\ walk.prev.depth > 100)
              => walk.depth = walk.prev.depth

\* the call for a message with 99 ancestors returned 99, then the call for
\* its reply returned 100
C18_Witness ==
    /\ Returned
    /\ messages[1].parent_message = None
    /\ walk.prev # NoWalk
    /\ walk.prev.message = messages[walk.message].parent_message
    /\ walk.prev.depth = 99
    /\ walk.depth = 100

\* C19: every step of a get_thread_depth call either returns or is one more
\* hop to a parent, and no call makes more than 101 hops: the call returns
\* after at most 101 hops, on a cycle of parent_message links as well.
C19_DepthWalkIsBounded ==
    [][(walk # NoWalk /\ ~walk.done) =>
          /\ walk.depth <= 100
          /\ \/ walk'.done /\ walk'.depth = walk.depth
             \/ walk'.depth = walk.depth + 1 /\ walk'.depth <= 101
          /\ walk'.depth = 101 => walk'.done]_vars

\* a call for a message on a cycle of parent_message links has returned
C19_Witness ==
    /\ Returned
    /\ messages[1].parent_message # None
    /\ walk.message <= messages[1].parent_message
    /\ walk.depth = 101

\* C20: the value a get_thread_depth call returns is at most 100, whatever the
\* parent_message links are.
C20_DepthAtMostLimit == Returned => walk.depth <= 100

\* C21: a thread retrieval always ends, and it ends by returning the message
\* with its tree of replies (down to max_depth, siblings by timestamp): a call
\* of get_message_with_thread that is over has returned.
C21_ThreadRetrievalReturns ==
    thread.status \notin {"none", "building"} => thread.status = "returned"

\* C22: in every state, a message that has a parent_message is in the
\* conversation of that parent.
C22_ParentInSameConversation ==
    \A m \in DOMAIN messages :
        messages[m].parent_message # None =>
            /\ messages[m].parent_message \in DOMAIN messages
            /\ messages[messages[m].parent_message].conversation =
                  messages[m].conversation

\* a step in which a message view takes a request
Answered ==
    \/ request' # request
    \/ Starts(1)
    \/ DOMAIN messages' # DOMAIN messages

\* C26: an update or delete of a message goes through only when the requester
\* is a participant of the message's conversation and its sender; for any
\* other requester the request is denied (or the message is not found), no
\* save begins and the message, its history and its notifications are
\* unchanged.
C26_OnlySenderParticipantMayChange ==
    [][(Answered /\ request'.method \in {"PUT", "PATCH", "DELETE"}) =>
          LET u == request'.user
              m == request'.message
              entitled == /\ Exists(m)
                          /\ u \in participants[messages[m].conversation]
                          /\ messages[m].sender = u
          IN
          /\ request'.response = "ok" => entitled
          /\ ~entitled =>
                /\ request'.response \in {"denied", "not_found"}
                /\ UNCHANGED <<messages, history, notifications, last_activity,
                               inst, pc, loc>>]_vars

\* a participant who is not the sender asked to change a message and was denied
C26_Witness ==
    /\ request.method \in {"PUT", "PATCH", "DELETE"}
    /\ request.response = "denied"
    /\ Exists(request.message)
    /\ request.user \in participants[messages[request.message].conversation]
    /\ messages[request.message].sender # request.user
    /\ history # <<>>

\* the step in which the account of user a is deleted
Deletes(a) == a \in users /\ a \notin users'

\* C23: deleting user A keeps the messages A sent and received: each message
\* A sent still exists in its conversation with sender null and the tombstone
\* as content, each message A received still exists with receiver null.
C23_DeletedUsersMessagesKept ==
    [][\A a \in Users : Deletes(a) =>
          \A m \in DOMAIN messages :
              /\ messages[m].sender = a =>
                    /\ m \in DOMAIN messages'
                    /\ messages'[m].conversation = messages[m].conversation
                    /\ messages'[m].sender = None
                    /\ messages'[m].content = Tombstone
              /\ messages[m].receiver = a =>
                    /\ m \in DOMAIN messages'
                    /\ messages'[m].receiver = None]_vars

\* C24: when user A is deleted, each conversation in which A was the only
\* participant is deleted, and each conversation with another participant is
\* kept, without A in its participant set.
C24_OrphanedConversationsDeleted ==
    [][\A a \in Users : Deletes(a) =>
          \A c \in DOMAIN participants :
              /\ participants[c] = {a} => c \notin DOMAIN participants'
              /\ (a \in participants[c] /\ participants[c] # {a}) =>
                    /\ c \in DOMAIN participants'
                    /\ participants'[c] = participants[c] \ {a}]_vars

\* C25: a MessageHistory row is never changed and goes only with its message:
\* in every step, each history row of a message that still exists after the
\* step is still there with the same message, old_content, new_content,
\* editor and version_number.
C25_HistoryIsAppendOnly ==
    [][\A k \in 1..Len(history) :
          history[k].message \in DOMAIN messages' =>
              \E j \in 1..Len(history') : history'[j] = history[k]]_vars

\* C27: also when edits of one message interleave, its history rows have
\* pairwise distinct version numbers, and these are 1..N for N rows.
C27_VersionsDistinctWhenInterleaved ==
    \A m \in DOMAIN messages :
        LET h == HistoryOf(m) IN
        /\ \A i, j \in 1..Len(h) :
              i # j => h[i].version_number # h[j].version_number
        /\ {h[i].version_number : i \in 1..Len(h)} = 1..Len(h)

\* C28: the read flag of a message, once true, is never set back to false,
\* whatever operation comes later or interleaves; saving a copy of the message
\* that was loaded before mark_as_read does not revert it.
C28_ReadFlagNeverReverted ==
    [][\A m \in DOMAIN messages :
          (messages[m].is_read /\ m \in DOMAIN messages') =>
              messages'[m].is_read]_vars

\* C29: mark_as_read(u, ids) called with an id list changes the read flag
\* only of messages that are in the list and were unread for u; every other
\* message keeps its flag, also when the list is empty.
C29_OnlyListedMessagesChange ==
    [][\A k \in 1..Len(marks) :
          (Returns(k) /\ marks[k].given) =>
              \A m \in DOMAIN messages :
                  messages'[m].is_read # messages[m].is_read =>
                      /\ m \in marks[k].ids
                      /\ m \in unread_for_user(marks[k].user)]_vars

\* C30: read state is per user: mark_as_read by user u leaves
\* unread_for_user(v) as it was for every other user v.
C30_ReadStateIsPerUser ==
    [][\A k \in 1..Len(marks) :
          Returns(k) =>
              \A v \in Users \ {marks[k].user} :
                  UnreadForUserIn(messages', v) = unread_for_user(v)]_vars

====
